---------------------------- MODULE Spec2Model ----------------------------
(***************************************************************************)
(* EventHub: the login attempt throttle of app.py and the field validation *)
(* engine of validation.py.                                                *)
(*                                                                         *)
(* A Python str is a sequence of characters; a character is a token (a TLA *)
(* string): "a", "1", " ", and named tokens for the characters that have   *)
(* no plain spelling ("NL" is the newline, "TAB" the tab, "NBSP" U+00A0,   *)
(* "FW1" the fullwidth digit one U+FF11, "EACUTE" the letter U+00E9, "NCA"  *)
(* U+1F150, a capital letter A in a black circle, which str.isupper()      *)
(* accepts and str.lower() leaves as it is).                               *)
(* Python's None is the value None below.                                  *)
(***************************************************************************)
EXTENDS Integers, Sequences, FiniteSets, TLC

VARIABLES
    attempts,   \* USER_LOGIN_ATTEMPTS: normalized email -> [intentos, tiempoBloqueo]
    now,        \* datetime.now().timestamp(), in whole seconds
    session,    \* session["user_email"] of the client, None when absent
    last,       \* the last call made and what it returned
    hist,       \* history: what the callers did, recorded beside the code's state
    thr,        \* the request threads of the multi-threaded server
    vcall       \* the last validator call: function, arguments, result

vars == <<attempts, now, session, last, hist, thr, vcall>>

---------------------------------------------------------------------------
(* Bounds of the model *)

\* the clock advances at most MaxTicks times
MaxTicks == 2
\* a record's failure counter is driven up to MaxIntentos
MaxIntentos == 4
\* the threaded server runs NThreads request threads
NThreads == 2
\* and receives at most MaxRequests login requests
MaxRequests == 4
\* datetime.utcnow() falls in the year ThisYear or one of the MaxYears after it
MaxYears == 1

---------------------------------------------------------------------------
(* Python values and str methods *)

None == <<"None">>

\* the characters str.strip(), str.split(), str.isspace() and \s take for whitespace
Whitespace == {" ", "TAB", "NL", "NBSP"}

\* str.lower(), one character
lower_char(c) ==
    CASE c = "A" -> "a"
      [] c = "B" -> "b"
      [] c = "C" -> "c"
      [] c = "D" -> "d"
      [] OTHER -> c

\* str.lower()
str_lower(s) == [i \in 1..Len(s) |-> lower_char(s[i])]

RECURSIVE str_lstrip(_)
str_lstrip(s) ==
    IF s = <<>> THEN <<>>
    ELSE IF Head(s) \in Whitespace THEN str_lstrip(Tail(s)) ELSE s

RECURSIVE str_rstrip(_)
str_rstrip(s) ==
    IF s = <<>> THEN <<>>
    ELSE IF s[Len(s)] \in Whitespace THEN str_rstrip(SubSeq(s, 1, Len(s) - 1)) ELSE s

\* str.strip()
str_strip(s) == str_rstrip(str_lstrip(s))

\* (value or ""): None and the empty str both give ""
or_empty(value) == IF value = None THEN <<>> ELSE value

---------------------------------------------------------------------------
(* app.py: the login attempt throttle *)

MAX_LOGIN_ATTEMPTS == 3
LOCK_TIME_MINUTES == 5

\* data/users.json as load_users() reads it: one registered account
Users == << [email |-> <<"a", "@", "b">>, password |-> <<"p", "w">>] >>

\* email_norm = (email or "").strip().lower()
email_norm(email) == str_lower(str_strip(or_empty(email)))

\* find_user_by_email: the index in Users of the first user whose normalized
\* email is email's, 0 for None
find_user_by_email(email) ==
    LET hits == {i \in 1..Len(Users) : email_norm(Users[i].email) = email_norm(email)}
    IN IF hits = {} THEN 0 ELSE CHOOSE i \in hits : \A j \in hits : i <= j

\* the mapping store without key k
del_key(store, k) == [x \in DOMAIN store \ {k} |-> store[x]]

\* the mapping store with store[k] = v
set_key(store, k, v) == [x \in DOMAIN store \cup {k} |-> IF x = k THEN v ELSE store[x]]

\* is_user_locked with the expiry test remaining_seconds < 0
is_user_locked_strict(store, email, t) ==
    LET k == email_norm(email) IN
    IF k \notin DOMAIN store
    THEN [locked |-> FALSE, remaining |-> 0, store |-> store]
    ELSE IF store[k].intentos < MAX_LOGIN_ATTEMPTS
    THEN [locked |-> FALSE, remaining |-> 0, store |-> store]
    ELSE LET remaining_seconds == (LOCK_TIME_MINUTES * 60) - (t - store[k].tiempoBloqueo)
         IN IF remaining_seconds < 0
            THEN [locked |-> FALSE, remaining |-> 0, store |-> store]
            ELSE [locked |-> TRUE, remaining |-> remaining_seconds, store |-> store]

\* is_user_locked reading the record with setdefault: an unknown email gets a record
is_user_locked_creating(store, email, t) ==
    LET k == email_norm(email) IN
    IF k \notin DOMAIN store
    THEN [locked |-> FALSE, remaining |-> 0,
          store |-> set_key(store, k, [intentos |-> 0, tiempoBloqueo |-> 0])]
    ELSE IF store[k].intentos < MAX_LOGIN_ATTEMPTS
    THEN [locked |-> FALSE, remaining |-> 0, store |-> store]
    ELSE LET remaining_seconds == (LOCK_TIME_MINUTES * 60) - (t - store[k].tiempoBloqueo)
         IN IF remaining_seconds <= 0
            THEN [locked |-> FALSE, remaining |-> 0, store |-> store]
            ELSE [locked |-> TRUE, remaining |-> remaining_seconds, store |-> store]

\* is_user_locked(email) at time t: the pair returned, and the mapping after the call
is_user_locked(store, email, t) ==
    LET k == email_norm(email) IN
    IF k \notin DOMAIN store
    THEN [locked |-> FALSE, remaining |-> 0, store |-> store]
    ELSE IF store[k].intentos < MAX_LOGIN_ATTEMPTS
    THEN [locked |-> FALSE, remaining |-> 0, store |-> store]
    ELSE LET elapsed == t - store[k].tiempoBloqueo
             remaining_seconds == (LOCK_TIME_MINUTES * 60) - elapsed
         IN IF remaining_seconds <= 0
            THEN [locked |-> FALSE, remaining |-> 0, store |-> store]
            ELSE [locked |-> TRUE, remaining |-> remaining_seconds, store |-> store]

\* reset_user_attempts deleting only a record that is not at the maximum
reset_user_attempts_unlocked_only(store, email) ==
    LET k == email_norm(email) IN
    IF k \in DOMAIN store /\ store[k].intentos < MAX_LOGIN_ATTEMPTS
    THEN del_key(store, k) ELSE store

\* reset_user_attempts emptying the whole mapping
reset_user_attempts_all(store, email) ==
    LET k == email_norm(email) IN
    IF k \in DOMAIN store THEN << >> ELSE store

\* reset_user_attempts(email): the mapping after the call
reset_user_attempts(store, email) ==
    LET k == email_norm(email) IN
    IF k \in DOMAIN store THEN del_key(store, k) ELSE store

\* increment_user_attempts locking with intentos > MAX_LOGIN_ATTEMPTS
increment_user_attempts_late(store, email, t) ==
    LET k == email_norm(email)
        s0 == IF k \notin DOMAIN store
              THEN set_key(store, k, [intentos |-> 0, tiempoBloqueo |-> 0])
              ELSE store
        n == s0[k].intentos + 1
    IN IF n > MAX_LOGIN_ATTEMPTS
       THEN set_key(s0, k, [intentos |-> n, tiempoBloqueo |-> t])
       ELSE set_key(s0, k, [intentos |-> n, tiempoBloqueo |-> s0[k].tiempoBloqueo])

\* increment_user_attempts stamping with intentos == MAX_LOGIN_ATTEMPTS
increment_user_attempts_once(store, email, t) ==
    LET k == email_norm(email)
        s0 == IF k \notin DOMAIN store
              THEN set_key(store, k, [intentos |-> 0, tiempoBloqueo |-> 0])
              ELSE store
        n == s0[k].intentos + 1
    IN IF n = MAX_LOGIN_ATTEMPTS
       THEN set_key(s0, k, [intentos |-> n, tiempoBloqueo |-> t])
       ELSE set_key(s0, k, [intentos |-> n, tiempoBloqueo |-> s0[k].tiempoBloqueo])

\* increment_user_attempts starting the count again once the lock has run out
increment_user_attempts_fresh(store, email, t) ==
    LET k == email_norm(email)
        run_out == /\ k \in DOMAIN store
                   /\ store[k].intentos >= MAX_LOGIN_ATTEMPTS
                   /\ t - store[k].tiempoBloqueo >= LOCK_TIME_MINUTES * 60
        s0 == IF k \notin DOMAIN store \/ run_out
              THEN set_key(store, k, [intentos |-> 0, tiempoBloqueo |-> 0])
              ELSE store
        n == s0[k].intentos + 1
    IN IF n >= MAX_LOGIN_ATTEMPTS
       THEN set_key(s0, k, [intentos |-> n, tiempoBloqueo |-> t])
       ELSE set_key(s0, k, [intentos |-> n, tiempoBloqueo |-> s0[k].tiempoBloqueo])

\* increment_user_attempts(email) at time t: the mapping after the call
increment_user_attempts(store, email, t) ==
    LET k == email_norm(email)
        s0 == IF k \notin DOMAIN store
              THEN set_key(store, k, [intentos |-> 0, tiempoBloqueo |-> 0])
              ELSE store
        n == s0[k].intentos + 1
    IN IF n >= MAX_LOGIN_ATTEMPTS
       THEN set_key(s0, k, [intentos |-> n, tiempoBloqueo |-> t])
       ELSE set_key(s0, k, [intentos |-> n, tiempoBloqueo |-> s0[k].tiempoBloqueo])

\* login looking the credentials up before it asks is_user_locked
login_lookup_first(store, sess, email, password, t) ==
    IF str_strip(email) = <<>> \/ str_strip(password) = <<>>
    THEN [store |-> store, session |-> sess, status |-> 400]
    ELSE LET u == find_user_by_email(email) IN
         IF u # 0 /\ Users[u].password = password
         THEN [store |-> reset_user_attempts(store, email),
               session |-> str_lower(str_strip(or_empty(Users[u].email))),
               status |-> 302]
         ELSE IF is_user_locked(store, email, t).locked
         THEN [store |-> store, session |-> sess, status |-> 403]
         ELSE [store |-> increment_user_attempts(store, email, t),
               session |-> sess, status |-> 401]

\* POST /login handled to completion at time t: the mapping and the session after
\* it, and the HTTP status of the response
login(store, sess, email, password, t) ==
    IF str_strip(email) = <<>> \/ str_strip(password) = <<>>
    THEN [store |-> store, session |-> sess, status |-> 400]
    ELSE LET lk == is_user_locked(store, email, t) IN
         IF lk.locked
         THEN [store |-> lk.store, session |-> sess, status |-> 403]
         ELSE LET u == find_user_by_email(email) IN
              IF u = 0 \/ Users[u].password # password
              THEN [store |-> increment_user_attempts(lk.store, email, t),
                    session |-> sess, status |-> 401]
              ELSE [store |-> reset_user_attempts(lk.store, email),
                    session |-> str_lower(str_strip(or_empty(Users[u].email))),
                    status |-> 302]

---------------------------------------------------------------------------
(* validation.py: characters, patterns, utility functions *)

Digits == {"0", "1", "2", "3", "4", "5", "6", "7", "8", "9"}

\* the characters \d matches and str.isdigit() accepts: the decimal digits of
\* any script ("AR4" is the Arabic-Indic digit four, "FW1" the fullwidth one)
ReDigit == Digits \cup {"AR4", "FW1"}

UpperLetters == {"A", "B", "C", "D"}
\* the characters str.isupper() accepts
IsUpper == UpperLetters \cup {"NCA"}
LowerLetters == {"a", "b", "c", "d", "p", "w", "x"}

\* the class of NAME_ALLOWED_RE: ASCII letters, accented Latin letters, "'", " ", "-"
NameAllowed == UpperLetters \cup LowerLetters \cup {"EACUTE", "'", " ", "-"}

\* PASSWORD_SPECIAL_CHARS
PASSWORD_SPECIAL_CHARS ==
    {"!", "@", "#", "$", "%", "^", "&", "*", "(", ")", "-", "_", "=", "+",
     "[", "]", "{", "}", "<", ">", "?"}

\* int(c) of one decimal digit
digit_value(c) ==
    CASE c = "0" -> 0 [] c = "1" -> 1 [] c = "2" -> 2 [] c = "3" -> 3 [] c = "4" -> 4
      [] c = "5" -> 5 [] c = "6" -> 6 [] c = "7" -> 7 [] c = "8" -> 8 [] c = "9" -> 9
      [] c = "AR4" -> 4 [] c = "FW1" -> 1

\* int(s) of a str of decimal digits
RECURSIVE int_of(_)
int_of(s) ==
    IF s = <<>> THEN 0
    ELSE 10 * int_of(SubSeq(s, 1, Len(s) - 1)) + digit_value(s[Len(s)])

\* unicodedata.normalize("NFKC", .), one character: compatibility characters
\* become their plain form
nfkc_char(c) ==
    CASE c = "FW1" -> "1"
      [] c = "NBSP" -> " "
      [] OTHER -> c

nfkc(s) == [i \in 1..Len(s) |-> nfkc_char(s[i])]

\* str.replace(c, ""): s without the characters of cs
str_remove(s, cs) == SelectSeq(s, LAMBDA c : c \notin cs)

\* " ".join(s.split()): the runs of whitespace become one space, none at the ends
RECURSIVE join_split(_)
join_split(s) ==
    LET t == str_lstrip(s) IN
    IF t = <<>> THEN <<>>
    ELSE LET n == CHOOSE i \in 1..Len(t) :
                     /\ \A j \in 1..i : t[j] \notin Whitespace
                     /\ (i = Len(t) \/ t[i + 1] \in Whitespace)
             rest == join_split(SubSeq(t, n + 1, Len(t)))
         IN IF rest = <<>> THEN SubSeq(t, 1, n)
            ELSE SubSeq(t, 1, n) \o <<" ">> \o rest

\* the characters of s
Range(s) == {s[i] : i \in 1..Len(s)}

\* every character of s is in cs
all_in(s, cs) == \A i \in 1..Len(s) : s[i] \in cs

\* s without a final newline: $ matches at the end and before a final newline
before_dollar(s) ==
    IF s # <<>> /\ s[Len(s)] = "NL" THEN {s, SubSeq(s, 1, Len(s) - 1)} ELSE {s}

\* CARD_DIGITS_RE.match / PHONE_RE.match: ^\d+$
match_digits(s) == \E b \in before_dollar(s) : b # <<>> /\ all_in(b, ReDigit)

\* CVV_RE.match: ^\d{3,4}$
match_cvv(s) == \E b \in before_dollar(s) : Len(b) \in {3, 4} /\ all_in(b, ReDigit)

\* EXP_RE.match: ^(0[1-9]|1[0-2])\/\d{2}$
match_exp(s) ==
    \E b \in before_dollar(s) :
        /\ Len(b) = 5
        /\ \/ b[1] = "0" /\ b[2] \in Digits \ {"0"}
           \/ b[1] = "1" /\ b[2] \in {"0", "1", "2"}
        /\ b[3] = "/"
        /\ b[4] \in ReDigit
        /\ b[5] \in ReDigit

\* EMAIL_BASIC_RE.match / EMAIL_REGISTRATION_RE.match: ^[^@\s]+@[^@\s]+\.[^@\s]+$
match_email(s) ==
    \E b \in before_dollar(s) :
        /\ \A i \in 1..Len(b) : b[i] \notin Whitespace
        /\ \E a \in 2..Len(b) :
              /\ b[a] = "@"
              /\ \A i \in 1..Len(b) : b[i] = "@" => i = a
              /\ \E d \in (a + 2)..(Len(b) - 1) : b[d] = "."

\* NAME_ALLOWED_RE.match / FULL_NAME_RE.match: ^[...]+$ over the class NameAllowed
match_name(s) == \E b \in before_dollar(s) : b # <<>> /\ all_in(b, NameAllowed)

\* s.count("@")
count_at(s) == Cardinality({i \in 1..Len(s) : s[i] = "@"})

\* what a validator call gives: the pair returned, or the exception raised
Returned(clean, error) == [clean |-> clean, error |-> error, raised |-> ""]
Raised(exc) == [clean |-> <<>>, error |-> "", raised |-> exc]

\* normalize_basic
normalize_basic(value) == str_strip(nfkc(or_empty(value)))

\* the sum luhn_is_valid adds up over number[::-1]
RECURSIVE luhn_total(_, _)
luhn_total(number, i) ==
    IF i >= Len(number) THEN 0
    ELSE LET n == digit_value(number[Len(number) - i])
             m == IF i % 2 = 1 THEN (IF n * 2 > 9 THEN n * 2 - 9 ELSE n * 2) ELSE n
         IN m + luhn_total(number, i + 1)

\* luhn_is_valid: "True", "False", or the ValueError of int(digit) on a
\* character that is no digit
luhn_is_valid(number) ==
    IF ~ all_in(number, ReDigit) THEN "ValueError"
    ELSE IF luhn_total(number, 0) % 10 = 0 THEN "True" ELSE "False"

---------------------------------------------------------------------------
(* validation.py: the field validators. today is datetime.utcnow() *)

validate_card_number(card_number) ==
    LET card == str_remove(normalize_basic(card_number), {" ", "-"}) IN
    IF ~ match_digits(card)
    THEN Returned(<<>>, "Card number must contain digits only")
    ELSE IF ~ (13 <= Len(card) /\ Len(card) <= 19)
    THEN Returned(<<>>, "Card number must be between 13 and 19 digits")
    ELSE IF luhn_is_valid(card) = "ValueError" THEN Raised("ValueError")
    ELSE IF luhn_is_valid(card) = "False"
    THEN Returned(<<>>, "Invalid card number (Luhn check failed)")
    ELSE Returned(card, "")

\* validate_exp_date with the current month taken for expired
validate_exp_date_this_month_expired(exp_date, today) ==
    LET exp == normalize_basic(exp_date) IN
    IF ~ match_exp(exp)
    THEN Returned(<<>>, "Expiration date must be in MM/YY format")
    ELSE LET month == int_of(SubSeq(exp, 1, 2))
             year == int_of(<<"2", "0">> \o SubSeq(exp, 4, 5))
         IN IF year < today.year \/ (year = today.year /\ month <= today.month)
            THEN Returned(<<>>, "Card is expired")
            ELSE IF year > today.year + 15
            THEN Returned(<<>>, "Expiration date too far in future")
            ELSE Returned(exp, "")

validate_exp_date(exp_date, today) ==
    LET exp == normalize_basic(exp_date) IN
    IF ~ match_exp(exp)
    THEN Returned(<<>>, "Expiration date must be in MM/YY format")
    ELSE LET month == int_of(SubSeq(exp, 1, 2))
             year == int_of(<<"2", "0">> \o SubSeq(exp, 4, 5))
         IN IF year < today.year \/ (year = today.year /\ month < today.month)
            THEN Returned(<<>>, "Card is expired")
            ELSE IF year > today.year + 15
            THEN Returned(<<>>, "Expiration date too far in future")
            ELSE Returned(exp, "")

validate_cvv(cvv) ==
    LET value == normalize_basic(cvv) IN
    IF ~ match_cvv(value)
    THEN Returned(<<>>, "CVV must be 3 or 4 digits")
    ELSE Returned(<<>>, "")

validate_billing_email(billing_email) ==
    LET email == str_lower(normalize_basic(billing_email)) IN
    IF email = <<>> THEN Returned(<<>>, "Email is required")
    ELSE IF Len(email) > 254 THEN Returned(<<>>, "Email too long")
    ELSE IF ~ match_email(email) THEN Returned(<<>>, "Invalid email format")
    ELSE Returned(email, "")

validate_name_on_card(name_on_card) ==
    LET name == join_split(normalize_basic(name_on_card)) IN
    IF name = <<>> THEN Returned(<<>>, "Name is required")
    ELSE IF ~ (2 <= Len(name) /\ Len(name) <= 60)
    THEN Returned(<<>>, "Name must be between 2 and 60 characters")
    ELSE IF ~ match_name(name) THEN Returned(<<>>, "Name contains invalid characters")
    ELSE Returned(name, "")

validate_full_name(full_name) ==
    LET name == join_split(normalize_basic(full_name)) IN
    IF name = <<>> THEN Returned(<<>>, "Full name is required")
    ELSE IF Len(name) < 2 THEN Returned(<<>>, "Full name must be at least 2 characters")
    ELSE IF Len(name) > 60 THEN Returned(<<>>, "Full name must not exceed 60 characters")
    ELSE IF ~ match_name(name)
    THEN Returned(<<>>, "Full name can only contain letters, spaces, apostrophes, and hyphens")
    ELSE Returned(name, "")

\* existing_users is None or the list of the users' emails
validate_registration_email(email, existing_users) ==
    LET email_clean == str_lower(normalize_basic(email)) IN
    IF email_clean = <<>> THEN Returned(<<>>, "Email is required")
    ELSE IF Len(email_clean) > 254 THEN Returned(<<>>, "Email must not exceed 254 characters")
    ELSE IF count_at(email_clean) # 1
    THEN Returned(<<>>, "Email must contain exactly one @ symbol")
    ELSE IF ~ match_email(email_clean) THEN Returned(<<>>, "Invalid email format")
    ELSE IF /\ existing_users # None
            /\ \E i \in 1..Len(existing_users) : str_lower(existing_users[i]) = email_clean
    THEN Returned(<<>>, "This email is already registered")
    ELSE Returned(email_clean, "")

validate_phone(phone) ==
    IF phone = None THEN Raised("AttributeError")
    ELSE LET phone_clean == normalize_basic(str_remove(phone, {" ", "-", "(", ")"})) IN
         IF phone_clean = <<>> THEN Returned(<<>>, "Phone number is required")
         ELSE IF ~ match_digits(phone_clean)
         THEN Returned(<<>>, "Phone number must contain only digits")
         ELSE IF Len(phone_clean) < 7
         THEN Returned(<<>>, "Phone number must be at least 7 digits")
         ELSE IF Len(phone_clean) > 15
         THEN Returned(<<>>, "Phone number must not exceed 15 digits")
         ELSE Returned(phone_clean, "")

\* validate_password with the lowercase check made before the uppercase check
validate_password_lowercase_first(password, email, confirm_password) ==
    IF password = None \/ password = <<>> THEN Returned(<<>>, "Password is required")
    ELSE IF Len(password) < 8 THEN Returned(<<>>, "Password must be at least 8 characters")
    ELSE IF Len(password) > 64 THEN Returned(<<>>, "Password must not exceed 64 characters")
    ELSE IF \E i \in 1..Len(password) : password[i] \in Whitespace
    THEN Returned(<<>>, "Password must not contain whitespace")
    ELSE IF ~ \E i \in 1..Len(password) : password[i] \in LowerLetters \cup {"EACUTE"}
    THEN Returned(<<>>, "Password must contain at least one lowercase letter")
    ELSE IF ~ \E i \in 1..Len(password) : password[i] \in IsUpper
    THEN Returned(<<>>, "Password must contain at least one uppercase letter")
    ELSE IF ~ \E i \in 1..Len(password) : password[i] \in ReDigit
    THEN Returned(<<>>, "Password must contain at least one number")
    ELSE IF ~ \E i \in 1..Len(password) : password[i] \in PASSWORD_SPECIAL_CHARS
    THEN Returned(<<>>, "Password must contain at least one special character (!@#$%^&*()-_=+[]{}<>?)")
    ELSE IF email # None /\ email # <<>> /\ password = email
    THEN Returned(<<>>, "Password cannot be the same as your email")
    ELSE IF confirm_password # None /\ confirm_password # <<>> /\ password # confirm_password
    THEN Returned(<<>>, "Password confirmation does not match")
    ELSE Returned(password, "")

validate_password(password, email, confirm_password) ==
    IF password = None \/ password = <<>> THEN Returned(<<>>, "Password is required")
    ELSE IF Len(password) < 8 THEN Returned(<<>>, "Password must be at least 8 characters")
    ELSE IF Len(password) > 64 THEN Returned(<<>>, "Password must not exceed 64 characters")
    ELSE IF \E i \in 1..Len(password) : password[i] \in Whitespace
    THEN Returned(<<>>, "Password must not contain whitespace")
    ELSE IF ~ \E i \in 1..Len(password) : password[i] \in IsUpper
    THEN Returned(<<>>, "Password must contain at least one uppercase letter")
    ELSE IF ~ \E i \in 1..Len(password) : password[i] \in LowerLetters \cup {"EACUTE"}
    THEN Returned(<<>>, "Password must contain at least one lowercase letter")
    ELSE IF ~ \E i \in 1..Len(password) : password[i] \in ReDigit
    THEN Returned(<<>>, "Password must contain at least one number")
    ELSE IF ~ \E i \in 1..Len(password) : password[i] \in PASSWORD_SPECIAL_CHARS
    THEN Returned(<<>>, "Password must contain at least one special character (!@#$%^&*()-_=+[]{}<>?)")
    ELSE IF email # None /\ email # <<>> /\ password = email
    THEN Returned(<<>>, "Password cannot be the same as your email")
    ELSE IF confirm_password # None /\ confirm_password # <<>> /\ password # confirm_password
    THEN Returned(<<>>, "Password confirmation does not match")
    ELSE Returned(password, "")

---------------------------------------------------------------------------
(* validation.py: the form orchestrators. A form result is the pair of     *)
(* dicts (clean, errors), or the exception raised before it was returned.  *)

FormReturned(clean, errors) == [clean |-> clean, errors |-> errors, raised |-> ""]
FormRaised(exc) == [clean |-> << >>, errors |-> << >>, raised |-> exc]

\* errors[key] = r.error when r.error is not empty
with_error(errors, key, r) == IF r.error # "" THEN set_key(errors, key, r.error) ELSE errors

validate_payment_form(card_number, exp_date, cvv, name_on_card, billing_email, today) ==
    LET r1 == validate_card_number(card_number)
        r2 == validate_exp_date(exp_date, today)
        r3 == validate_cvv(cvv)
        r4 == validate_name_on_card(name_on_card)
        r5 == validate_billing_email(billing_email)
        e1 == with_error(<< >>, "card_number", r1)
        c1 == set_key(<< >>, "card", r1.clean)
        e2 == with_error(e1, "exp_date", r2)
        c2 == set_key(c1, "exp_date", r2.clean)
        e3 == with_error(e2, "cvv", r3)
        e4 == with_error(e3, "name_on_card", r4)
        c4 == set_key(c2, "name_on_card", r4.clean)
        e5 == with_error(e4, "billing_email", r5)
        c5 == set_key(c4, "billing_email", r5.clean)
    IN IF r1.raised # "" THEN FormRaised(r1.raised)
       ELSE IF r2.raised # "" THEN FormRaised(r2.raised)
       ELSE IF r3.raised # "" THEN FormRaised(r3.raised)
       ELSE IF r4.raised # "" THEN FormRaised(r4.raised)
       ELSE IF r5.raised # "" THEN FormRaised(r5.raised)
       ELSE FormReturned(c5, e5)

\* validate_registration_form checking the password against the email as submitted
validate_registration_form_raw_email(full_name, email, phone, password, confirm_password, existing_users) ==
    LET r1 == validate_full_name(full_name)
        r2 == validate_registration_email(email, existing_users)
        r3 == validate_phone(phone)
        r4 == validate_password(password, email, confirm_password)
        e1 == with_error(<< >>, "full_name", r1)
        c1 == set_key(<< >>, "full_name", r1.clean)
        e2 == with_error(e1, "email", r2)
        c2 == set_key(c1, "email", r2.clean)
        e3 == with_error(e2, "phone", r3)
        c3 == set_key(c2, "phone", r3.clean)
        e4 == with_error(e3, "password", r4)
        c4 == set_key(c3, "password", r4.clean)
    IN IF r1.raised # "" THEN FormRaised(r1.raised)
       ELSE IF r2.raised # "" THEN FormRaised(r2.raised)
       ELSE IF r3.raised # "" THEN FormRaised(r3.raised)
       ELSE IF r4.raised # "" THEN FormRaised(r4.raised)
       ELSE FormReturned(c4, e4)

validate_registration_form(full_name, email, phone, password, confirm_password, existing_users) ==
    LET r1 == validate_full_name(full_name)
        r2 == validate_registration_email(email, existing_users)
        r3 == validate_phone(phone)
        r4 == validate_password(password, r2.clean, confirm_password)
        e1 == with_error(<< >>, "full_name", r1)
        c1 == set_key(<< >>, "full_name", r1.clean)
        e2 == with_error(e1, "email", r2)
        c2 == set_key(c1, "email", r2.clean)
        e3 == with_error(e2, "phone", r3)
        c3 == set_key(c2, "phone", r3.clean)
        e4 == with_error(e3, "password", r4)
        c4 == set_key(c3, "password", r4.clean)
    IN IF r1.raised # "" THEN FormRaised(r1.raised)
       ELSE IF r2.raised # "" THEN FormRaised(r2.raised)
       ELSE IF r3.raised # "" THEN FormRaised(r3.raised)
       ELSE IF r4.raised # "" THEN FormRaised(r4.raised)
       ELSE FormReturned(c4, e4)

---------------------------------------------------------------------------
(* The callers of the validators: the values submitted *)

\* c repeated n times
Rep(c, n) == [i \in 1..n |-> c]

CardOk == <<"4", "5", "3", "2", "0", "1", "5", "1", "1", "2", "8", "3", "0", "3", "6", "6">>
CardBadSum == <<"4", "5", "3", "2", "0", "1", "5", "1", "1", "2", "8", "3", "0", "3", "6", "7">>
\* the card number followed by a newline and a hyphen
CardNewline == CardOk \o <<"NL", "-">>

\* the card numbers of a payment form
FormCards == {CardOk, CardBadSum, CardNewline}

CardInputs ==
    FormCards \cup
    { None, <<>>, <<" ">> \o CardOk \o <<" ">>,
      <<"4", "5", "3", "2", "-", "0", "1", "5", "1", " ", "1", "2", "8", "3", "-", "0", "3", "6", "6">>,
      Rep("0", 12), Rep("0", 13), Rep("0", 19), Rep("0", 20),
      Rep("AR4", 13), Rep("FW1", 13), <<"4", "a", "1">>, Rep("0", 12) \o <<"NL", "-">>,
      <<"1", "2", "3", "NL", "-">>, Rep("1", 13) \o <<"NL">>, Rep("0", 15) \o <<"a">>,
      Rep("0", 20) \o <<"a">>, Rep("1", 13), Rep("1", 19), Rep("1", 12), Rep("1", 20) }

\* the first year datetime.utcnow() is taken from
ThisYear == 2024

\* the (year, month) of datetime.utcnow()
Todays == { [year |-> y, month |-> mo] : y \in ThisYear..(ThisYear + MaxYears), mo \in {2, 3, 4} }

\* the (year, month) at which the payment forms are submitted
FormTodays == { [year |-> ThisYear, month |-> 3] }

FormExps == { <<"0", "3", "/", "2", "4">>, <<"0", "2", "/", "2", "4">> }

\* MM/YY around the current month, the current year and the year 15 years on
WellFormedExps ==
    { mm \o <<"/">> \o yy :
        mm \in { <<"0", "1">>, <<"0", "2">>, <<"0", "3">>, <<"0", "4">>, <<"1", "2">> },
        yy \in { <<"2", "3">>, <<"2", "4">>, <<"2", "5">>, <<"3", "9">>, <<"4", "0">>,
                 <<"4", "1">> } }

ExpInputs ==
    FormExps \cup WellFormedExps \cup
    { None, <<>>, <<" ", "0", "3", "/", "2", "4", "NL">>, <<"1", "2", "/", "3", "9">>,
      <<"0", "1", "/", "4", "0">>, <<"1", "3", "/", "2", "4">>, <<"3", "/", "2", "4">>,
      <<"0", "1", "/", "2", "0">>, <<"0", "3", "/", "AR4", "AR4">>, <<"0", "0", "/", "2", "4">>,
      <<"0", "3", "-", "2", "4">>, <<"FW1", "2", "/", "9", "9">> }

FormCvvs == { <<"1", "2", "3">>, <<"1", "2">> }

CvvInputs == FormCvvs \cup { None, <<>>, <<"1", "2", "3", "4">>, <<"1", "2", "a">>, Rep("1", 5),
                             <<" ", "FW1", "2", "3">> }

FormNames == { <<"A", "b", " ", "C", "d">>, <<"A", "1">> }

NameInputs == FormNames \cup { None, <<>>, <<" ">>, <<"A">>, <<" ", "A", "b", "TAB", " ", "C", "d", " ">>,
                               <<"d", "'", "A", "-", "EACUTE">>, Rep("a", 60), Rep("a", 61) }

FormEmails == { <<"A", "@", "b", ".", "c">>, <<"a", "@", "b">> }

EmailInputs == FormEmails \cup { None, <<>>, <<" ", "a", "@", "b", ".", "c", "NL">>,
                                 <<"a", "@", "@", "b", ".", "c">>, <<"a", " ", "b", "@", "c", ".", "d">>,
                                 <<"a", "b", ".", "c">>, <<"@", "b", ".", "c">>, <<"a", "@", ".", "c">>,
                                 <<"a", "@", "b", ".">>, Rep("a", 250) \o <<"@", "b", ".", "c", "d">> }

FormPhones == { Rep("5", 7), <<"5", "5", "5">>, None }

PhoneInputs == FormPhones \cup { <<>>, <<"(", "5", "5", "5", ")", " ", "1", "2", "3", "-", "4", "5", "6", "7">>,
                                 Rep("5", 15), Rep("5", 16), <<"5", "5", "5", "a", "2", "3", "4">>,
                                 Rep("5", 7) \o <<"NL">>, <<"5", "5", "NBSP", "5", "1", "2", "3", "4">> }

PasswordOk == <<"A", "b", "c", "d", "a", "b", "1", "!">>

FormPasswords == { PasswordOk, <<"a", "b", "c", "d", "a", "b", "c", "1", "!">> }

PasswordInputs ==
    FormPasswords \cup
    { None, <<>>, <<"A", "b", "1", "!">>, Rep("a", 65), <<"A", "b", "c", " ", "a", "b", "1", "!">>,
      <<"A", "B", "C", "D", "A", "B", "1", "!">>, <<"A", "b", "c", "d", "a", "b", "c", "!">>,
      <<"A", "b", "c", "d", "a", "b", "c", "1">>, <<"a", "@", "b", ".", "c", "A", "1", "!">>,
      Rep("1", 8), <<"a", " ", "b">>, Rep("a", 8), <<"a", "b", "c", "d", " ", "a", "b", "c">>,
      Rep("A", 8), Rep(" ", 66), <<"A", "b", "c", "d", "a", "b", "c", "d">> }

FormConfirms == { <<>>, PasswordOk }

\* an email that is a password too: with a capital letter, and with a capital
\* letter that has no lowercase form
EmailMixed == <<"A", "b", "1", "!", "@", "c", ".", "d">>
EmailUncased == <<"NCA", "b", "1", "!", "@", "c", ".", "d">>

\* the emails and the passwords of a registration form
RegEmails == FormEmails \cup {EmailMixed, EmailUncased}
RegPasswords == FormPasswords \cup {EmailMixed, EmailUncased}

ConfirmInputs == FormConfirms \cup { None, <<"x">> }

\* the emails of the users already registered, None when no list is passed
ExistingUsers == { None, <<>>, << <<"a", "@", "b", ".", "c">> >> }

\* load_users() at a registration
RegUsers == { <<>>, << <<"a", "@", "b", ".", "c">> >> }

---------------------------------------------------------------------------
(* The callers of the throttle: what is submitted, and when *)

\* emails submitted: the registered one, the same written with capitals and
\* padding, one that no account has
RawEmails == { <<"a", "@", "b">>, <<" ", "A", "@", "B">>, <<"c", "@", "d">> }

\* emails of a login form: also the blank one
LoginEmails == RawEmails \cup { <<" ">> }

\* passwords of a login form: the right one, a wrong one, a blank one
Passwords == { <<"p", "w">>, <<"x">>, <<" ">> }

\* the request threads
Threads == 1..NThreads

\* the login forms sent to the threaded server: one account, right or wrong password
ConcEmails == { <<"a", "@", "b">> }
ConcPasswords == { <<"p", "w">>, <<"x">> }

\* the identifiers the mapping can hold
Ids == {email_norm(e) : e \in RawEmails}

\* the clock advances by one second or by one second less than the lock window
TickSteps == {1, (LOCK_TIME_MINUTES * 60) - 1}

\* the state of identifier k as the design names it
StateOf(store, k, t) ==
    IF k \notin DOMAIN store THEN "Untracked"
    ELSE IF store[k].intentos < MAX_LOGIN_ATTEMPTS THEN "Active"
    ELSE IF t - store[k].tiempoBloqueo < LOCK_TIME_MINUTES * 60 THEN "Locked"
    ELSE "Expired"

\* the form's password is the one stored for the form's email
CredentialsOk(e, p) ==
    find_user_by_email(e) # 0 /\ Users[find_user_by_email(e)].password = p

\* the history after a failure recorded for k at time t
HistFailure(h, k, t) ==
    [h EXCEPT !.fails[k] = @ + 1,
              !.lockEntry[k] = IF h.fails[k] + 1 = MAX_LOGIN_ATTEMPTS THEN t ELSE @]

\* the history after a success recorded for k
HistSuccess(h, k) ==
    [h EXCEPT !.fails[k] = 0, !.lockEntry[k] = -1, !.checks[k] = 0]

\* the history after a credential check failed for k
HistCheck(h, k) == [h EXCEPT !.checks[k] = @ + 1]

NoCall == [op |-> "none", email |-> <<>>, good |-> FALSE, pre |-> "Untracked",
           locked |-> FALSE, remaining |-> 0, status |-> 0]

\* a request thread with no request in progress
IdleThread == [pc |-> "idle", email |-> <<>>, password |-> <<>>, ref |-> 0, tmp |-> 0, resp |-> 0]

\* the threads of the server, the dict objects they have created (heap), the
\* object each key of USER_LOGIN_ATTEMPTS refers to (at), the requests received
ThrIdle == [th |-> [t \in Threads |-> IdleThread], heap |-> <<>>, at |-> << >>, reqs |-> 0]

VNone == [fn |-> "none"]

InitThrottle ==
    /\ attempts = << >>
    /\ now = 0
    /\ session = None
    /\ last = NoCall
    /\ hist = [fails |-> [k \in Ids |-> 0], lockEntry |-> [k \in Ids |-> -1],
               checks |-> [k \in Ids |-> 0], ticks |-> 0]

Init ==
    /\ InitThrottle
    /\ thr = ThrIdle
    /\ vcall = VNone

\* time passes
Tick(d) ==
    /\ hist.ticks < MaxTicks
    /\ now' = now + d
    /\ hist' = [hist EXCEPT !.ticks = @ + 1]
    /\ last' = [NoCall EXCEPT !.op = "tick"]
    /\ UNCHANGED <<attempts, session, thr, vcall>>

\* a caller records a failure: increment_user_attempts(e)
RecordFailure(e) ==
    /\ email_norm(e) \in DOMAIN attempts => attempts[email_norm(e)].intentos < MaxIntentos
    /\ attempts' = increment_user_attempts(attempts, e, now)
    /\ hist' = HistFailure(hist, email_norm(e), now)
    /\ last' = [NoCall EXCEPT !.op = "increment_user_attempts", !.email = e,
                              !.pre = StateOf(attempts, email_norm(e), now)]
    /\ UNCHANGED <<now, session, thr, vcall>>

\* a caller records a success: reset_user_attempts(e)
RecordSuccess(e) ==
    /\ attempts' = reset_user_attempts(attempts, e)
    /\ hist' = HistSuccess(hist, email_norm(e))
    /\ last' = [NoCall EXCEPT !.op = "reset_user_attempts", !.email = e,
                              !.pre = StateOf(attempts, email_norm(e), now)]
    /\ UNCHANGED <<now, session, thr, vcall>>

\* a caller asks: is_user_locked(e)
IsLocked(e) ==
    LET r == is_user_locked(attempts, e, now) IN
    /\ attempts' = r.store
    /\ last' = [NoCall EXCEPT !.op = "is_user_locked", !.email = e,
                              !.pre = StateOf(attempts, email_norm(e), now),
                              !.locked = r.locked, !.remaining = r.remaining]
    /\ UNCHANGED <<now, session, hist, thr, vcall>>

\* a POST /login request, handled to completion
Login(e, p) ==
    LET r == login(attempts, session, e, p, now)
        k == email_norm(e)
    IN
    /\ k \in DOMAIN attempts => attempts[k].intentos < MaxIntentos
    /\ attempts' = r.store
    /\ session' = r.session
    /\ hist' = IF r.status = 401 THEN HistFailure(HistCheck(hist, k), k, now)
               ELSE IF r.status = 302 THEN HistSuccess(hist, k)
               ELSE hist
    /\ last' = [NoCall EXCEPT !.op = "login", !.email = e, !.good = CredentialsOk(e, p),
                              !.pre = StateOf(attempts, k, now), !.status = r.status]
    /\ UNCHANGED <<now, thr, vcall>>

Next ==
    \/ \E d \in TickSteps : Tick(d)
    \/ \E e \in RawEmails : RecordFailure(e)
    \/ \E e \in RawEmails : RecordSuccess(e)
    \/ \E e \in RawEmails : IsLocked(e)

\* the throttle as its callers drive it: any call, at any time
Spec == Init /\ [][Next]_vars

NextLogin ==
    \/ \E d \in TickSteps : Tick(d)
    \/ \E e \in LoginEmails, p \in Passwords : Login(e, p)

\* the server handling one login request after the other
SpecLogin == Init /\ [][NextLogin]_vars

---------------------------------------------------------------------------
(* The threaded server: login requests handled by threads that interleave  *)
(* between the reads and writes of USER_LOGIN_ATTEMPTS. The clock stands.  *)

\* thread t continues as rec
SetTh(t, rec) == [thr EXCEPT !.th[t] = rec]

\* thread t ends its request with HTTP status st
Respond(t, st) == [thr EXCEPT !.th[t] = [IdleThread EXCEPT !.resp = st]]

\* the dict object id with field f set to v: in the heap, and in the mapping
\* when a key still refers to the object
HeapWrite(h, id, f, v) == [h EXCEPT ![id] = [@ EXCEPT ![f] = v]]

ViewWrite(store, at, id, f, v) ==
    [k \in DOMAIN store |-> IF at[k] = id THEN [store[k] EXCEPT ![f] = v] ELSE store[k]]

\* app.py:344-360: the request arrives; blank fields end it with 400
Receive(t, e, p) ==
    /\ thr.th[t].pc = "idle"
    /\ thr.reqs < MaxRequests
    /\ thr' = [(IF str_strip(e) = <<>> \/ str_strip(p) = <<>>
                THEN Respond(t, 400)
                ELSE SetTh(t, [IdleThread EXCEPT !.pc = "locked_in", !.email = e, !.password = p]))
               EXCEPT !.reqs = @ + 1]
    /\ UNCHANGED <<attempts, now, session, last, hist, vcall>>

\* app.py:363, 217-219: is_user_locked tests the key
LockedIn(t) ==
    LET me == thr.th[t] IN
    /\ me.pc = "locked_in"
    /\ thr' = SetTh(t, [me EXCEPT !.pc = IF email_norm(me.email) \in DOMAIN attempts
                                         THEN "locked_read" ELSE "lookup"])
    /\ UNCHANGED <<attempts, now, session, last, hist, vcall>>

\* app.py:221-234, 364-372: is_user_locked reads the record (KeyError when the key
\* is gone by now); a lock ends the request with 403
LockedRead(t) ==
    LET me == thr.th[t]
        k == email_norm(me.email)
    IN
    /\ me.pc = "locked_read"
    /\ thr' = IF k \notin DOMAIN attempts THEN Respond(t, 500)
              ELSE IF is_user_locked(attempts, me.email, now).locked THEN Respond(t, 403)
              ELSE SetTh(t, [me EXCEPT !.pc = "lookup"])
    /\ UNCHANGED <<attempts, now, session, last, hist, vcall>>

\* app.py:375-376: the credentials are checked
Lookup(t) ==
    LET me == thr.th[t]
        k == email_norm(me.email)
    IN
    /\ me.pc = "lookup"
    /\ IF CredentialsOk(me.email, me.password)
       THEN /\ thr' = SetTh(t, [me EXCEPT !.pc = "reset_in"])
            /\ UNCHANGED hist
       ELSE /\ thr' = SetTh(t, [me EXCEPT !.pc = "inc_in"])
            /\ hist' = HistCheck(hist, k)
    /\ UNCHANGED <<attempts, now, session, last, vcall>>

\* app.py:247-251: increment_user_attempts creates the record when the key is absent
IncIn(t) ==
    LET me == thr.th[t]
        k == email_norm(me.email)
        fresh == [intentos |-> 0, tiempoBloqueo |-> 0]
    IN
    /\ me.pc = "inc_in"
    /\ IF k \in DOMAIN attempts
       THEN /\ thr' = SetTh(t, [me EXCEPT !.pc = "inc_ref"])
            /\ UNCHANGED attempts
       ELSE /\ attempts' = set_key(attempts, k, fresh)
            /\ thr' = [SetTh(t, [me EXCEPT !.pc = "inc_ref"])
                       EXCEPT !.heap = Append(@, fresh),
                              !.at = set_key(@, k, Len(thr.heap) + 1)]
    /\ hist' = HistFailure(hist, k, now)
    /\ UNCHANGED <<now, session, last, vcall>>

\* app.py:253: user_state = USER_LOGIN_ATTEMPTS[email_norm] (KeyError when the key
\* is gone by now)
IncRef(t) ==
    LET me == thr.th[t]
        k == email_norm(me.email)
    IN
    /\ me.pc = "inc_ref"
    /\ thr' = IF k \notin DOMAIN attempts THEN Respond(t, 500)
              ELSE SetTh(t, [me EXCEPT !.pc = "inc_read", !.ref = thr.at[k]])
    /\ UNCHANGED <<attempts, now, session, last, hist, vcall>>

\* app.py:254: user_state["intentos"] is read
IncRead(t) ==
    LET me == thr.th[t] IN
    /\ me.pc = "inc_read"
    /\ thr' = SetTh(t, [me EXCEPT !.pc = "inc_write", !.tmp = thr.heap[me.ref].intentos])
    /\ UNCHANGED <<attempts, now, session, last, hist, vcall>>

\* app.py:254: the value read, plus 1, is stored
IncWrite(t) ==
    LET me == thr.th[t] IN
    /\ me.pc = "inc_write"
    /\ attempts' = ViewWrite(attempts, thr.at, me.ref, "intentos", me.tmp + 1)
    /\ thr' = [SetTh(t, [me EXCEPT !.pc = "inc_stamp", !.tmp = 0])
               EXCEPT !.heap = HeapWrite(@, me.ref, "intentos", me.tmp + 1)]
    /\ UNCHANGED <<now, session, last, hist, vcall>>

\* app.py:257-258, 379-384: the lock time is stamped at the maximum; 401
IncStamp(t) ==
    LET me == thr.th[t]
        hit == thr.heap[me.ref].intentos >= MAX_LOGIN_ATTEMPTS
    IN
    /\ me.pc = "inc_stamp"
    /\ attempts' = IF hit THEN ViewWrite(attempts, thr.at, me.ref, "tiempoBloqueo", now)
                   ELSE attempts
    /\ thr' = [Respond(t, 401)
               EXCEPT !.heap = IF hit THEN HeapWrite(@, me.ref, "tiempoBloqueo", now) ELSE @]
    /\ UNCHANGED <<now, session, last, hist, vcall>>

\* app.py:240: reset_user_attempts tests the key
ResetIn(t) ==
    LET me == thr.th[t] IN
    /\ me.pc = "reset_in"
    /\ thr' = SetTh(t, [me EXCEPT !.pc = IF email_norm(me.email) \in DOMAIN attempts
                                         THEN "reset_del" ELSE "signin"])
    /\ hist' = HistSuccess(hist, email_norm(me.email))
    /\ UNCHANGED <<attempts, now, session, last, vcall>>

\* app.py:241: del USER_LOGIN_ATTEMPTS[email_norm] (KeyError when the key is gone by now)
ResetDel(t) ==
    LET me == thr.th[t]
        k == email_norm(me.email)
    IN
    /\ me.pc = "reset_del"
    /\ IF k \notin DOMAIN attempts
       THEN /\ thr' = Respond(t, 500)
            /\ UNCHANGED attempts
       ELSE /\ attempts' = del_key(attempts, k)
            /\ thr' = [SetTh(t, [me EXCEPT !.pc = "signin"]) EXCEPT !.at = del_key(@, k)]
    /\ UNCHANGED <<now, session, last, hist, vcall>>

\* app.py:388-390: the session is set; 302
SignIn(t) ==
    LET me == thr.th[t]
        u == find_user_by_email(me.email)
    IN
    /\ me.pc = "signin"
    /\ session' = str_lower(str_strip(or_empty(Users[u].email)))
    /\ thr' = Respond(t, 302)
    /\ UNCHANGED <<attempts, now, last, hist, vcall>>

NextConc ==
    \/ \E t \in Threads, e \in ConcEmails, p \in ConcPasswords : Receive(t, e, p)
    \/ \E t \in Threads : LockedIn(t)
    \/ \E t \in Threads : LockedRead(t)
    \/ \E t \in Threads : Lookup(t)
    \/ \E t \in Threads : IncIn(t)
    \/ \E t \in Threads : IncRef(t)
    \/ \E t \in Threads : IncRead(t)
    \/ \E t \in Threads : IncWrite(t)
    \/ \E t \in Threads : IncStamp(t)
    \/ \E t \in Threads : ResetIn(t)
    \/ \E t \in Threads : ResetDel(t)
    \/ \E t \in Threads : SignIn(t)

\* the multi-threaded server
SpecConc == Init /\ [][NextConc]_vars

---------------------------------------------------------------------------
(* Calls of the validators *)

Called(fn, args, out) == [fn |-> fn, args |-> args, out |-> out]

CallCardNumber ==
    /\ \E x \in CardInputs : vcall' = Called("validate_card_number", <<x>>, validate_card_number(x))
    /\ UNCHANGED <<attempts, now, session, last, hist, thr>>

CallExpDate ==
    /\ \E x \in ExpInputs, d \in Todays :
           vcall' = Called("validate_exp_date", <<x, d>>, validate_exp_date(x, d))
    /\ UNCHANGED <<attempts, now, session, last, hist, thr>>

CallCvv ==
    /\ \E x \in CvvInputs : vcall' = Called("validate_cvv", <<x>>, validate_cvv(x))
    /\ UNCHANGED <<attempts, now, session, last, hist, thr>>

CallBillingEmail ==
    /\ \E x \in EmailInputs : vcall' = Called("validate_billing_email", <<x>>, validate_billing_email(x))
    /\ UNCHANGED <<attempts, now, session, last, hist, thr>>

CallNameOnCard ==
    /\ \E x \in NameInputs : vcall' = Called("validate_name_on_card", <<x>>, validate_name_on_card(x))
    /\ UNCHANGED <<attempts, now, session, last, hist, thr>>

CallFullName ==
    /\ \E x \in NameInputs : vcall' = Called("validate_full_name", <<x>>, validate_full_name(x))
    /\ UNCHANGED <<attempts, now, session, last, hist, thr>>

CallRegistrationEmail ==
    /\ \E x \in EmailInputs, u \in ExistingUsers :
           vcall' = Called("validate_registration_email", <<x, u>>, validate_registration_email(x, u))
    /\ UNCHANGED <<attempts, now, session, last, hist, thr>>

CallPhone ==
    /\ \E x \in PhoneInputs : vcall' = Called("validate_phone", <<x>>, validate_phone(x))
    /\ UNCHANGED <<attempts, now, session, last, hist, thr>>

CallPassword ==
    /\ \E x \in PasswordInputs, e \in {<<>>, <<"a", "@", "b", ".", "c", "A", "1", "!">>},
       c \in ConfirmInputs :
           vcall' = Called("validate_password", <<x, e, c>>, validate_password(x, e, c))
    /\ UNCHANGED <<attempts, now, session, last, hist, thr>>

CallPaymentForm ==
    /\ \E a \in FormCards, b \in FormExps, c \in FormCvvs, n \in FormNames, e \in FormEmails,
       d \in FormTodays :
           vcall' = Called("validate_payment_form", <<a, b, c, n, e, d>>,
           validate_payment_form(a, b, c, n, e, d))
    /\ UNCHANGED <<attempts, now, session, last, hist, thr>>

CallRegistrationForm ==
    /\ \E n \in FormNames, e \in RegEmails, ph \in FormPhones, pw \in RegPasswords,
       c \in FormConfirms, u \in RegUsers :
           vcall' = Called("validate_registration_form", <<n, e, ph, pw, c, u>>,
           validate_registration_form(n, e, ph, pw, c, u))
    /\ UNCHANGED <<attempts, now, session, last, hist, thr>>

NextVal ==
    \/ CallCardNumber
    \/ CallExpDate
    \/ CallCvv
    \/ CallBillingEmail
    \/ CallNameOnCard
    \/ CallFullName
    \/ CallRegistrationEmail
    \/ CallPhone
    \/ CallPassword
    \/ CallPaymentForm
    \/ CallRegistrationForm

\* the validators called with any of the values above
SpecVal == Init /\ [][NextVal]_vars

\* validate_exp_date called at any of the dates Todays
SpecExp == Init /\ [][CallExpDate]_vars

\* validate_password called alone
SpecPassword == Init /\ [][CallPassword]_vars

\* validate_registration_form called alone
SpecRegistration == Init /\ [][CallRegistrationForm]_vars


---------------------------------------------------------------------------
(* Claims about the throttle, under Spec *)

\* the pair is_user_locked(e) returns in the current state
Reports(e) == is_user_locked(attempts, e, now)

\* the last call was op, made for identifier k
LastWas(op, k) == last.op = op /\ email_norm(last.email) = k

\* C1: starting from an untracked identifier, after 1 or 2 recorded failures and
\* no success the identifier is Active with that count and is_user_locked
\* reports (False, 0); right after the 3rd failure it reports locked with
\* 0 < remaining <= 300 and the lock timestamp is the time of that failure.
C1_FailureLadder ==
    \A e \in RawEmails :
        LET k == email_norm(e) IN
        /\ hist.fails[k] = 0 => k \notin DOMAIN attempts
        /\ hist.fails[k] \in 1..(MAX_LOGIN_ATTEMPTS - 1) =>
              /\ k \in DOMAIN attempts
              /\ attempts[k].intentos = hist.fails[k]
              /\ Reports(e).locked = FALSE
              /\ Reports(e).remaining = 0
        /\ (LastWas("increment_user_attempts", k) /\ hist.fails[k] = MAX_LOGIN_ATTEMPTS) =>
              /\ Reports(e).locked = TRUE
              /\ 0 < Reports(e).remaining
              /\ Reports(e).remaining <= LOCK_TIME_MINUTES * 60
              /\ attempts[k].tiempoBloqueo = now

\* C1 witness: the 3rd failure in a row has just been recorded and the identifier is locked
C1_Witness ==
    \E k \in Ids :
        /\ LastWas("increment_user_attempts", k)
        /\ last.pre = "Active"
        /\ hist.fails[k] = MAX_LOGIN_ATTEMPTS
        /\ Reports(last.email).locked

\* C2 as claimed: while the lock entered at time t is still running (now - t < 300)
\* the lock timestamp is t, whatever failures are recorded meanwhile.
C2_LockTimestampFixed ==
    \A k \in Ids :
        (hist.lockEntry[k] >= 0 /\ now - hist.lockEntry[k] < LOCK_TIME_MINUTES * 60) =>
            (k \in DOMAIN attempts /\ attempts[k].tiempoBloqueo = hist.lockEntry[k])

\* C2 amended: a failure recorded for a Locked identifier sets the lock timestamp
\* to the time of that call, so the lock runs for a full 300 seconds from the
\* most recent failure.
C2_LockTimestampRefreshed ==
    \A k \in Ids :
        (LastWas("increment_user_attempts", k) /\ last.pre = "Locked") =>
            /\ attempts[k].tiempoBloqueo = now
            /\ Reports(last.email).locked
            /\ Reports(last.email).remaining = LOCK_TIME_MINUTES * 60

\* C2 witness: a failure recorded during the lock, later than the entry into Locked
C2_Witness ==
    \E k \in Ids :
        /\ LastWas("increment_user_attempts", k)
        /\ last.pre = "Locked"
        /\ hist.lockEntry[k] >= 0
        /\ hist.lockEntry[k] < now
        /\ attempts[k].tiempoBloqueo = now

\* C3: for a record at Locked(t), is_user_locked reports (True, 300 - (now - t))
\* while now - t < 300 and (False, 0) from now - t = 300 on, and the call leaves
\* the record as it is; the last report made is the one of these for its state.
C3_ExpiryReport ==
    \A e \in RawEmails :
        LET k == email_norm(e) IN
        (k \in DOMAIN attempts /\ attempts[k].intentos >= MAX_LOGIN_ATTEMPTS) =>
            LET t == attempts[k].tiempoBloqueo IN
            /\ now - t < LOCK_TIME_MINUTES * 60 =>
                  /\ Reports(e).locked = TRUE
                  /\ Reports(e).remaining = (LOCK_TIME_MINUTES * 60) - (now - t)
            /\ now - t >= LOCK_TIME_MINUTES * 60 =>
                  /\ Reports(e).locked = FALSE
                  /\ Reports(e).remaining = 0
            /\ Reports(e).store = attempts
            /\ LastWas("is_user_locked", k) =>
                  /\ last.locked = Reports(e).locked
                  /\ last.remaining = Reports(e).remaining
                  /\ last.pre = IF now - t < LOCK_TIME_MINUTES * 60 THEN "Locked" ELSE "Expired"

\* C3 witness: expiry has just been reported for a record that is still there, at Locked
C3_Witness ==
    \E k \in Ids :
        /\ LastWas("is_user_locked", k)
        /\ last.pre = "Expired"
        /\ last.locked = FALSE
        /\ last.remaining = 0
        /\ k \in DOMAIN attempts
        /\ attempts[k].intentos >= MAX_LOGIN_ATTEMPTS
        /\ now - attempts[k].tiempoBloqueo >= LOCK_TIME_MINUTES * 60

\* C4: right after reset_user_attempts the identifier has no record, whatever
\* its state was, is_user_locked reports (False, 0), and neither of the next
\* MAX_LOGIN_ATTEMPTS - 1 failures locks it.
C4_FullReset ==
    \A k \in Ids :
        LastWas("reset_user_attempts", k) =>
            LET e == last.email
                s1 == increment_user_attempts(attempts, e, now)
                s2 == increment_user_attempts(s1, e, now)
            IN
            /\ k \notin DOMAIN attempts
            /\ Reports(e).locked = FALSE
            /\ Reports(e).remaining = 0
            /\ is_user_locked(s1, e, now).locked = FALSE
            /\ is_user_locked(s2, e, now).locked = FALSE

\* C4 witness: a reset has just been made of an identifier that was locked and unexpired
C4_Witness ==
    \E k \in Ids :
        /\ LastWas("reset_user_attempts", k)
        /\ last.pre = "Locked"
        /\ k \notin DOMAIN attempts

\* C5: a call of is_user_locked leaves the whole mapping as it was: the same keys,
\* counters and lock timestamps.
C5_IsLockedReadOnly ==
    [][last'.op = "is_user_locked" => attempts' = attempts]_vars

\* C5 witness: is_user_locked has just been asked about an identifier without a
\* record, and there is still none
C5_Witness ==
    \E k \in Ids :
        /\ LastWas("is_user_locked", k)
        /\ last.pre = "Untracked"
        /\ k \notin DOMAIN attempts

---------------------------------------------------------------------------
(* Claims about the login flow, under SpecLogin *)

\* C6: a login request for an email that is_user_locked reports locked is
\* rejected even with the right password (403, or 400 for a blank password),
\* sets no session and leaves the mapping as it was; and no login succeeds
\* for an identifier within 300 seconds of its entry into Locked.
C6_LockedLoginRejected ==
    [][last'.op = "login" =>
          LET e == last'.email IN
          /\ is_user_locked(attempts, e, now).locked =>
                /\ last'.status \in {400, 403}
                /\ last'.good => last'.status = 403
                /\ session' = session
                /\ attempts' = attempts
          /\ last'.status = 302 =>
                ~ (/\ hist.lockEntry[email_norm(e)] >= 0
                   /\ now - hist.lockEntry[email_norm(e)] < LOCK_TIME_MINUTES * 60)
      ]_vars

\* C6 witness: a login with the right password has just been refused for a locked email
C6_Witness ==
    /\ last.op = "login"
    /\ last.good
    /\ last.pre = "Locked"
    /\ last.status = 403
    /\ session = None

---------------------------------------------------------------------------
(* Claims about the threaded server, under SpecConc *)

\* no request is in progress
Quiescent == \A t \in Threads : thr.th[t].pc = "idle"

\* the failure counter of identifier k, 0 without a record
Intentos(k) == IF k \in DOMAIN attempts THEN attempts[k].intentos ELSE 0

\* once the requests are over, the counter of k is the number of
\* increment_user_attempts calls entered since the last reset_user_attempts
\* call was entered: no update is lost, none outlives a later reset
C7_NoLostUpdate == \A k \in Ids : Quiescent => Intentos(k) = hist.fails[k]

\* no more than MAX_LOGIN_ATTEMPTS credential checks fail for k since its last
\* reset (the clock stands, so a lock does not run out)
C7_NoExcessChecks == \A k \in Ids : hist.checks[k] <= MAX_LOGIN_ATTEMPTS

\* C7: requests for one identifier that run concurrently leave the record that
\* the same calls made one at a time, in the order of invocation, would leave
\* (k concurrent failures raise the counter by k), and no more than
\* MAX_LOGIN_ATTEMPTS failed credential checks are made for an identifier
\* before it is locked.
C7_Serialized == C7_NoLostUpdate /\ C7_NoExcessChecks

---------------------------------------------------------------------------
(* Claims about the validators, under SpecVal *)

FieldValidators ==
    { "validate_card_number", "validate_exp_date", "validate_cvv", "validate_name_on_card",
      "validate_billing_email", "validate_full_name", "validate_registration_email",
      "validate_phone", "validate_password" }

Orchestrators == { "validate_payment_form", "validate_registration_form" }

\* the result of calling fn with the arguments a
Apply(fn, a) ==
    CASE fn = "validate_card_number" -> validate_card_number(a[1])
      [] fn = "validate_exp_date" -> validate_exp_date(a[1], a[2])
      [] fn = "validate_cvv" -> validate_cvv(a[1])
      [] fn = "validate_name_on_card" -> validate_name_on_card(a[1])
      [] fn = "validate_billing_email" -> validate_billing_email(a[1])
      [] fn = "validate_full_name" -> validate_full_name(a[1])
      [] fn = "validate_registration_email" -> validate_registration_email(a[1], a[2])
      [] fn = "validate_phone" -> validate_phone(a[1])
      [] fn = "validate_password" -> validate_password(a[1], a[2], a[3])
      [] fn = "validate_payment_form" -> validate_payment_form(a[1], a[2], a[3], a[4], a[5], a[6])
      [] fn = "validate_registration_form" ->
            validate_registration_form(a[1], a[2], a[3], a[4], a[5], a[6])

\* how many of the leading arguments of fn are submitted fields
Fields(fn) ==
    CASE fn \in Orchestrators -> 5
      [] fn = "validate_password" -> 3
      [] OTHER -> 1

\* the arguments a of fn with "" for every absent field
AbsentAsEmpty(fn, a) ==
    [i \in DOMAIN a |-> IF i <= Fields(fn) /\ a[i] = None THEN <<>> ELSE a[i]]

\* the call made last has an absent field
HasAbsent == \E i \in 1..Fields(vcall.fn) : vcall.args[i] = None

\* what the field validators return for the fields of the form call made last
\* (the password is validated against the clean email)
FieldResults ==
    LET a == vcall.args IN
    IF vcall.fn = "validate_payment_form"
    THEN [card_number |-> validate_card_number(a[1]),
          exp_date |-> validate_exp_date(a[2], a[6]),
          cvv |-> validate_cvv(a[3]),
          name_on_card |-> validate_name_on_card(a[4]),
          billing_email |-> validate_billing_email(a[5])]
    ELSE [full_name |-> validate_full_name(a[1]),
          email |-> validate_registration_email(a[2], a[6]),
          phone |-> validate_phone(a[3]),
          password |-> validate_password(a[4], validate_registration_email(a[2], a[6]).clean,
                                         a[5])]

\* the key of clean that holds the clean output of the field reported under key k
\* of errors; the CVV has none
CleanKey(k) == IF k = "card_number" THEN "card" ELSE k

\* errors and clean are those of the field validators, field by field
CollectsEveryField(o, r) ==
    /\ DOMAIN o.errors = {k \in DOMAIN r : r[k].error # ""}
    /\ \A k \in DOMAIN o.errors : o.errors[k] = r[k].error
    /\ DOMAIN o.clean = {CleanKey(k) : k \in DOMAIN r \ {"cvv"}}
    /\ \A k \in DOMAIN r \ {"cvv"} :
          /\ o.clean[CleanKey(k)] = r[k].clean
          /\ r[k].error # "" => o.clean[CleanKey(k)] = <<>>

\* C8: a form orchestrator returns, for every combination of inputs, errors
\* with a key for exactly the fields whose validator reported an error and
\* clean with exactly the keys card, exp_date, name_on_card, billing_email
\* (payment) or full_name, email, phone, password (registration), each the
\* validator's clean output and "" where the field failed.
C8_NoShortCircuit ==
    vcall.fn \in Orchestrators =>
        /\ vcall.out.raised = ""
        /\ CollectsEveryField(vcall.out, FieldResults)

\* what C8 says of the form calls in which no field validator raises
C8_WhereNothingRaises ==
    (vcall.fn \in Orchestrators /\ \A k \in DOMAIN FieldResults : FieldResults[k].raised = "")
        => /\ vcall.out.raised = ""
           /\ CollectsEveryField(vcall.out, FieldResults)

\* a form call with several failing fields, none of which raises
C8_SeveralErrors ==
    /\ vcall.fn \in Orchestrators
    /\ vcall.out.raised = ""
    /\ Cardinality(DOMAIN vcall.out.errors) >= 2

\* C9: no validator and no orchestrator raises, whatever the input, "" and
\* None included: each returns its (clean, error) or (clean, errors) result,
\* and None gives the result that "" gives.
C9_NeverRaises ==
    vcall.fn # "none" =>
        /\ vcall.out.raised = ""
        /\ vcall.out = Apply(vcall.fn, AbsentAsEmpty(vcall.fn, vcall.args))

\* what C9 says of the calls that return: None gives the result that "" gives
C9_WhereNothingRaises ==
    (vcall.fn # "none" /\ vcall.out.raised = "") =>
        vcall.out = Apply(vcall.fn, AbsentAsEmpty(vcall.fn, vcall.args))

\* a call with an absent field that returned
C9_AbsentReturned == vcall.fn # "none" /\ HasAbsent /\ vcall.out.raised = ""

\* C10: a field validator returns, for every input, a pair of which exactly
\* one is not empty: an error comes with an empty clean value, no error comes
\* with a clean value that is not empty, except that validate_cvv returns an
\* empty clean value on success too.
C10_ExactlyOne ==
    vcall.fn \in FieldValidators =>
        /\ vcall.out.raised = ""
        /\ vcall.out.error # "" => vcall.out.clean = <<>>
        /\ vcall.out.error = "" => (vcall.out.clean # <<>>) = (vcall.fn # "validate_cvv")

\* what C10 says of the calls that return
C10_WhereNothingRaises ==
    (vcall.fn \in FieldValidators /\ vcall.out.raised = "") =>
        /\ vcall.out.error # "" => vcall.out.clean = <<>>
        /\ vcall.out.error = "" => (vcall.out.clean # <<>>) = (vcall.fn # "validate_cvv")

---------------------------------------------------------------------------
(* Claims about validate_card_number, under SpecVal *)

\* the submitted card number trimmed, without spaces and hyphens
Stripped(x) == str_remove(normalize_basic(x), {" ", "-"})

\* card is a string of digits: not empty, every character a decimal digit
AllDigit(card) == card # <<>> /\ \A i \in 1..Len(card) : card[i] \in ReDigit

\* the Luhn sum of a digit string: digits taken from the right, those at odd
\* 0-based positions (odd = TRUE) doubled, 9 subtracted when the double exceeds 9
RECURSIVE LuhnSum(_, _)
LuhnSum(digits, odd) ==
    IF digits = <<>> THEN 0
    ELSE LET d == digit_value(digits[Len(digits)])
             w == IF ~ odd THEN d ELSE IF 2 * d > 9 THEN 2 * d - 9 ELSE 2 * d
         IN w + LuhnSum(SubSeq(digits, 1, Len(digits) - 1), ~ odd)

\* the result the order non-digit -> length -> Luhn gives the stripped string
Classified(card) ==
    IF ~ AllDigit(card) THEN Returned(<<>>, "Card number must contain digits only")
    ELSE IF Len(card) < 13 \/ Len(card) > 19
    THEN Returned(<<>>, "Card number must be between 13 and 19 digits")
    ELSE IF LuhnSum(card, FALSE) % 10 = 0 THEN Returned(card, "")
    ELSE Returned(<<>>, "Invalid card number (Luhn check failed)")

\* C11: validate_card_number classifies the trimmed input without spaces and
\* hyphens in the order non-digit -> length -> Luhn: a string with a character
\* that is no digit gets the "digits only" error whatever its length, an
\* all-digit string of a length outside 13..19 the length error, an all-digit
\* string of length 13..19 is returned without error iff its Luhn sum is 0 mod 10.
C11_Classification ==
    vcall.fn = "validate_card_number" => vcall.out = Classified(Stripped(vcall.args[1]))

\* what C11 says of the strings without a newline
C11_WhereNoNewline ==
    (vcall.fn = "validate_card_number" /\ "NL" \notin Range(Stripped(vcall.args[1]))) =>
        vcall.out = Classified(Stripped(vcall.args[1]))

\* a string whose last character is a newline passes as all digits and gets
\* the length error
C11_NewlineLengthError ==
    /\ vcall.fn = "validate_card_number"
    /\ "NL" \in Range(Stripped(vcall.args[1]))
    /\ vcall.out.error = "Card number must be between 13 and 19 digits"

---------------------------------------------------------------------------
(* Claims about validate_exp_date, under SpecExp *)

\* x is MM/YY: a month 01..12, a slash, two digits
WellFormedExp(x) ==
    /\ Len(x) = 5
    /\ x[3] = "/"
    /\ \A i \in {1, 2, 4, 5} : x[i] \in Digits
    /\ 10 * digit_value(x[1]) + digit_value(x[2]) \in 1..12

CardMonth(x) == 10 * digit_value(x[1]) + digit_value(x[2])
CardYear(x) == 2000 + 10 * digit_value(x[4]) + digit_value(x[5])

\* (y1, m1) is strictly before (y2, m2)
Before(y1, m1, y2, m2) == y1 < y2 \/ (y1 = y2 /\ m1 < m2)

\* the call made last is validate_exp_date on a well-formed MM/YY
ExpCall == vcall.fn = "validate_exp_date" /\ WellFormedExp(vcall.args[1])

\* C12: for a well-formed MM/YY and a current (year, month), validate_exp_date
\* rejects as expired exactly when (2000 + YY, MM) is strictly before the
\* current (year, month), as too far in the future exactly when it is not
\* expired and 2000 + YY > current year + 15, and accepts otherwise: the
\* current month of the current year and the year current + 15 are accepted.
C12_ExpiryWindow ==
    ExpCall =>
        LET x == vcall.args[1]
            d == vcall.args[2]
            expired == Before(CardYear(x), CardMonth(x), d.year, d.month)
            far == ~ expired /\ CardYear(x) > d.year + 15
        IN /\ vcall.out.raised = ""
           /\ (vcall.out.error = "Card is expired") = expired
           /\ (vcall.out.error = "Expiration date too far in future") = far
           /\ (~ expired /\ ~ far) = (vcall.out.error = "" /\ vcall.out.clean = x)

\* the card of the current month and year was accepted
C12_Witness ==
    /\ ExpCall
    /\ CardYear(vcall.args[1]) = vcall.args[2].year
    /\ CardMonth(vcall.args[1]) = vcall.args[2].month
    /\ vcall.out = Returned(vcall.args[1], "")

\* the card of the year 15 years on was accepted
C12_LastYearAccepted ==
    /\ ExpCall
    /\ CardYear(vcall.args[1]) = vcall.args[2].year + 15
    /\ vcall.out = Returned(vcall.args[1], "")

---------------------------------------------------------------------------
(* Claims about validate_password, under SpecPassword *)

HasChar(pw, cs) == \E i \in 1..Len(pw) : pw[i] \in cs

Supplied(x) == x # None /\ x # <<>>

\* the rules in their order of precedence: whether the password pw breaks the
\* rule, given the email e and the confirmation c, and the rule's error
PasswordRules(pw, e, c) ==
    << [broken |-> ~ Supplied(pw), error |-> "Password is required"],
       [broken |-> Len(pw) < 8, error |-> "Password must be at least 8 characters"],
       [broken |-> Len(pw) > 64, error |-> "Password must not exceed 64 characters"],
       [broken |-> HasChar(pw, Whitespace), error |-> "Password must not contain whitespace"],
       [broken |-> ~ HasChar(pw, IsUpper),
        error |-> "Password must contain at least one uppercase letter"],
       [broken |-> ~ HasChar(pw, LowerLetters \cup {"EACUTE"}),
        error |-> "Password must contain at least one lowercase letter"],
       [broken |-> ~ HasChar(pw, ReDigit), error |-> "Password must contain at least one number"],
       [broken |-> ~ HasChar(pw, PASSWORD_SPECIAL_CHARS),
        error |-> "Password must contain at least one special character (!@#$%^&*()-_=+[]{}<>?)"],
       [broken |-> Supplied(e) /\ pw = e, error |-> "Password cannot be the same as your email"],
       [broken |-> Supplied(c) /\ pw # c, error |-> "Password confirmation does not match"] >>

\* the rules the call made last breaks
Broken ==
    LET r == PasswordRules(vcall.args[1], vcall.args[2], vcall.args[3])
    IN {i \in DOMAIN r : r[i].broken}

\* the earliest of the rules is the one with the least number
Earliest(is) == CHOOSE i \in is : \A j \in is : i <= j

\* C13: validate_password returns the error of the earliest rule broken in the
\* order required, length < 8, length > 64, whitespace, uppercase, lowercase,
\* digit, special character, equals the email, differs from the confirmation,
\* and returns the password unchanged, without error, iff no rule is broken;
\* an empty confirmation breaks no rule.
C13_FirstFailureWins ==
    vcall.fn = "validate_password" =>
        LET r == PasswordRules(vcall.args[1], vcall.args[2], vcall.args[3])
        IN /\ Broken # {} => vcall.out = Returned(<<>>, r[Earliest(Broken)].error)
           /\ Broken = {} => vcall.out = Returned(vcall.args[1], "")
           /\ (vcall.args[3] = <<>> /\ Broken \ {10} = {}) => vcall.out.error = ""

\* a password that breaks several rules, among them the rule of the uppercase
\* letter and a later one, got the error of the earliest
C13_Witness ==
    /\ vcall.fn = "validate_password"
    /\ Cardinality(Broken) >= 2
    /\ Earliest(Broken) = 5
    /\ vcall.out.error = "Password must contain at least one uppercase letter"

\* a password was accepted with an empty confirmation
C13_AcceptedUnconfirmed ==
    /\ vcall.fn = "validate_password"
    /\ vcall.args[3] = <<>>
    /\ vcall.out = Returned(vcall.args[1], "")
    /\ vcall.out.clean # <<>>

---------------------------------------------------------------------------
(* Further claims about the throttle, under Spec *)

\* the record of k counts MAX_LOGIN_ATTEMPTS failures or more
AtMax(store, k) == k \in DOMAIN store /\ store[k].intentos >= MAX_LOGIN_ATTEMPTS

\* C14: the run-out of a lock does not reset the counter: one more failure
\* recorded for an identifier whose lock has run out makes is_user_locked
\* report it locked again, with LOCK_TIME_MINUTES * 60 seconds remaining, and
\* a counter at MAX_LOGIN_ATTEMPTS or above comes below it only through
\* reset_user_attempts for that identifier.
C14_RelockAfterExpiry ==
    [][ /\ (last'.op = "increment_user_attempts" /\ last'.pre = "Expired") =>
              LET r == is_user_locked(attempts', last'.email, now')
              IN /\ r.locked
                 /\ r.remaining = LOCK_TIME_MINUTES * 60
                 /\ AtMax(attempts', email_norm(last'.email))
        /\ \A k \in Ids :
              (AtMax(attempts, k) /\ ~ AtMax(attempts', k)) =>
                  (last'.op = "reset_user_attempts" /\ email_norm(last'.email) = k)
      ]_vars

\* a failure was recorded for an identifier whose lock had run out, and the
\* identifier is locked again
C14_Witness ==
    \E k \in Ids :
        /\ LastWas("increment_user_attempts", k)
        /\ last.pre = "Expired"
        /\ hist.fails[k] = MAX_LOGIN_ATTEMPTS + 1
        /\ StateOf(attempts, k, now) = "Locked"

\* the record of k is the same in the mappings s1 and s2
SameRecord(s1, s2, k) ==
    /\ (k \in DOMAIN s1) = (k \in DOMAIN s2)
    /\ k \in DOMAIN s1 => s1[k] = s2[k]

\* the step is a call of one of the three throttle functions
ThrottleCall(op) == op \in {"increment_user_attempts", "reset_user_attempts", "is_user_locked"}

\* C15: after any calls of increment_user_attempts, reset_user_attempts and
\* is_user_locked, every record of USER_LOGIN_ATTEMPTS counts 1 failure or
\* more, has tiempoBloqueo 0 below MAX_LOGIN_ATTEMPTS and, from
\* MAX_LOGIN_ATTEMPTS on, the time of the last failure recorded for it (no
\* later than now): each such failure stamps it, nothing else changes it; and a
\* call for one normalized identifier leaves the record of any other as it is.
C15_RecordShape ==
    [][ \A k \in Ids :
          /\ k \in DOMAIN attempts' =>
                /\ attempts'[k].intentos >= 1
                /\ attempts'[k].intentos < MAX_LOGIN_ATTEMPTS => attempts'[k].tiempoBloqueo = 0
                /\ attempts'[k].intentos >= MAX_LOGIN_ATTEMPTS =>
                      attempts'[k].tiempoBloqueo <= now'
          /\ (last'.op = "increment_user_attempts" /\ email_norm(last'.email) = k
                /\ AtMax(attempts', k)) => attempts'[k].tiempoBloqueo = now'
          /\ (last'.op # "increment_user_attempts" /\ k \in DOMAIN attempts'
                /\ k \in DOMAIN attempts) => attempts'[k] = attempts[k]
          /\ (ThrottleCall(last'.op) /\ email_norm(last'.email) # k) =>
                SameRecord(attempts, attempts', k)
      ]_vars

\* a failure has just locked one identifier, at a time after the start, while
\* another identifier has a record below MAX_LOGIN_ATTEMPTS
C15_Witness ==
    \E k \in Ids : \E j \in Ids \ {k} :
        /\ LastWas("increment_user_attempts", k)
        /\ AtMax(attempts, k)
        /\ attempts[k].tiempoBloqueo = now
        /\ now > 0
        /\ j \in DOMAIN attempts
        /\ attempts[j].intentos < MAX_LOGIN_ATTEMPTS
        /\ attempts[j].tiempoBloqueo = 0

---------------------------------------------------------------------------
(* Claims about validate_registration_form, under SpecRegistration *)

EqualsEmail == "Password cannot be the same as your email"

\* the call made last is validate_registration_form, and it returned
RegCall == vcall.fn = "validate_registration_form" /\ vcall.out.raised = ""

\* the error reported for the password, "" when there is none
PasswordError ==
    IF "password" \in DOMAIN vcall.out.errors THEN vcall.out.errors["password"] ELSE ""

\* C16 as stated: through validate_registration_form the password error is
\* never "Password cannot be the same as your email", for any input.
C16_EqualsEmailNeverFires == RegCall => PasswordError # EqualsEmail

\* pw has an uppercase character, and lower-casing leaves each of them as it is
UncasedUpper(pw) ==
    /\ \E i \in 1..Len(pw) : pw[i] \in IsUpper
    /\ \A i \in 1..Len(pw) : pw[i] \in IsUpper => lower_char(pw[i]) = pw[i]

\* C16, amended: through validate_registration_form the rule of the email fires
\* only for a password that is the clean email and whose uppercase characters
\* lower-casing leaves as they are; the password is checked against "" when the
\* email was rejected; and a password that is the submitted email, an email
\* that lower-casing changes, is accepted when it meets the other rules.
C16_EqualsEmailOnlyUncased ==
    RegCall =>
        LET email == vcall.args[2]
            pw == vcall.args[4]
            confirm == vcall.args[5]
            others == validate_password(pw, <<>>, confirm)
        IN /\ PasswordError = EqualsEmail =>
                 /\ pw = vcall.out.clean["email"]
                 /\ UncasedUpper(pw)
           /\ "email" \in DOMAIN vcall.out.errors =>
                 /\ vcall.out.clean["email"] = <<>>
                 /\ PasswordError = others.error
           /\ (pw = email /\ str_lower(email) # email /\ others.error = "") =>
                 /\ PasswordError = ""
                 /\ vcall.out.clean["password"] = pw

\* the password is the submitted email, which has a capital letter, and it
\* was accepted
C16_Witness ==
    /\ RegCall
    /\ vcall.args[4] = vcall.args[2]
    /\ str_lower(vcall.args[2]) # vcall.args[2]
    /\ PasswordError = ""
    /\ vcall.out.clean["password"] = vcall.args[4]
    /\ vcall.out.clean["email"] = str_lower(vcall.args[2])

\* the rule of the email fired
C16_EqualsEmailFired == RegCall /\ PasswordError = EqualsEmail

=============================================================================
